---- MODULE Spec2Model ----
(***************************************************************************)
(* A model of the APNG sticker maker: the loop-count patcher               *)
(* (utils/apngUtils: crcTable, crc32, setApngLoopCount), the place in      *)
(* handleExport that decides whether to call it, the alpha cleanup of the  *)
(* image-load effect of AnimationPreview, the AnimationPreview component   *)
(* itself (its settings, drawFrame, the preview loop animate and the       *)
(* export handler handleExport) and the page's handleImageSelected.        *)
(*                                                                         *)
(* Numbers.  TLC's integers are 32-bit signed, so a 32-bit word of the     *)
(* program (a value read by DataView.getUint32, a CRC, a table entry) is   *)
(* kept as its four base-256 digits, most significant first: <<b0,b1,b2,   *)
(* b3>> stands for b0*2^24 + b1*2^16 + b2*2^8 + b3.  The bit pattern of a   *)
(* JavaScript int32 and of the uint32 with the same bits is the same       *)
(* tuple, which is what ^, >>> and setUint32 see.                          *)
(*                                                                         *)
(* Offsets.  A JavaScript byte offset o (from 0) is index o + 1 of the     *)
(* TLA+ sequence that holds the buffer.                                    *)
(***************************************************************************)
EXTENDS Integers, Sequences, FiniteSets, TLC

VARIABLES
    \* ---- the loop-count patcher and its call site ----
    pc,         \* "ready" | "returned" | "threw" | "unpatched"
    caller,     \* "none" | "direct" | "handleExport": who ran the patch step
    buffer,     \* the container bytes as they were handed in
    loopCount,  \* the requested loop count
    res,        \* what the call left behind (see setApngLoopCount)
    \* ---- the alpha cleaner ----
    cpc,        \* "idle" | "loaded" | "cleaned"
    width,      \* canvas.width of the off-screen canvas
    height,     \* canvas.height
    original,   \* the RGBA bytes of the image as loaded
    data,       \* imageData.data after the last cleaning pass
    previous,   \* imageData.data before the last cleaning pass
    passes,     \* cleaning passes applied to data so far
    \* ---- the AnimationPreview component (loopCount above is its state) ----
    animationType,  \* useState: "none" | "bounce" | "shake" | "pulse" | "swing"
    text,           \* useState: the caption
    duration,       \* useState: the cycle duration in ms
    isExporting,    \* useState: the busy flag of the export
    imageSrc,       \* the prop: <<>> while unmounted, or an object URL
    loading,        \* the images whose onload has not been called yet
    imageRef,       \* imageRef.current: <<>> for null, or <<image>>
    request,        \* the pending requestAnimationFrame: <<>> or <<animate>>
    epc,            \* handleExport: "off" | "idle" | "waiting" | "settled"
    captured,       \* the values the running handleExport closed over
    frames,         \* its local frames, one entry per drawFrame call
    delays,         \* its local delays
    trace,          \* the calls the run has made, in order
    encoded,        \* what UPNG.encode was given and what it returned
    result,         \* what setApngLoopCount returned to the run
    downloaded,     \* the files the run has handed to the browser
    alerts,         \* the alert dialogs the run has shown
    now,            \* the timestamp of the next animate callback
    shown,          \* what animate has drawn on the preview canvas
    \* ---- the page ----
    ppc,                \* handleImageSelected: "off" | "idle" | "removing"
    calls,              \* removeBackground promises that are not settled
    originalImage,      \* useState: <<>> for null, or an object URL
    processedImage,     \* useState: <<>> for null, or an object URL
    isProcessing,       \* useState: the busy flag of the extraction
    error,              \* useState: the error message or "null"
    isBgRemovalEnabled, \* useState: the checkbox
    extraction,         \* removeBackground in the latest call: "none" |
                        \* "skipped" | "pending" | "resolved" | "rejected"
    created,            \* object URLs made by URL.createObjectURL so far
    revoked,            \* object URLs given to URL.revokeObjectURL so far
    messages            \* what the latest handleImageSelected gave setError

patchVars == <<pc, caller, buffer, loopCount, res>>
cleanVars == <<cpc, width, height, original, data, previous, passes>>
patchCall == <<pc, caller, buffer, res>>
exportVars == <<epc, captured, frames, delays, trace, encoded, result,
                downloaded, alerts>>
previewVars == <<animationType, text, duration, isExporting, imageSrc,
                 loading, imageRef, request, exportVars, now, shown>>
pageVars == <<ppc, calls, originalImage, processedImage, isProcessing, error,
              isBgRemovalEnabled, extraction, created, revoked, messages>>
vars == <<patchVars, cleanVars, previewVars, pageVars>>

\* What the patcher's actions leave alone, what the cleaner's do, what the
\* component's do and what the page's do.
outsidePatch == <<cleanVars, previewVars, pageVars>>
outsideClean == <<patchVars, previewVars, pageVars>>
outsidePreview == <<patchCall, cleanVars, pageVars>>
outsidePage == <<patchVars, cleanVars, previewVars>>

(***************************************************************************)
(* Bounds of the model.                                                    *)
(***************************************************************************)
MaxChunks == 2      \* chunks after the signature in a generated container
MaxCut == 16        \* bytes a generated container may be truncated by
MaxPixels == 9      \* pixels (width * height) of a generated bitmap
MaxPasses == 2      \* cleaning passes applied to one bitmap
MaxUploads == 2     \* files given to handleImageSelected
MaxStart == 2000    \* latest timestamp (ms) of the first animate callback
MaxDraws == 2       \* animate callbacks followed
FrameGap == 16      \* ms between two animate callbacks of a running display

(***************************************************************************)
(* Bit operations on bytes and 32-bit words.                               *)
(***************************************************************************)
RECURSIVE XorBits(_, _, _)
XorBits(a, b, n) ==
    IF n = 0 THEN 0
    ELSE (((a % 2) + (b % 2)) % 2) + 2 * XorBits(a \div 2, b \div 2, n - 1)

NibXor == [a \in 0..15 |-> [b \in 0..15 |-> XorBits(a, b, 4)]]

\* a ^ b on two bytes
XorByte(a, b) == 16 * NibXor[a \div 16][b \div 16] + NibXor[a % 16][b % 16]

\* u ^ v on two 32-bit words
XorWord(u, v) ==
    <<XorByte(u[1], v[1]), XorByte(u[2], v[2]),
      XorByte(u[3], v[3]), XorByte(u[4], v[4])>>

\* w >>> 1
Shr1(w) ==
    <<w[1] \div 2,
      (w[2] \div 2) + 128 * (w[1] % 2),
      (w[3] \div 2) + 128 * (w[2] % 2),
      (w[4] \div 2) + 128 * (w[3] % 2)>>

\* w >>> 8
Shr8(w) == <<0, w[1], w[2], w[3]>>

\* -1 as an int32: all 32 bits set
MinusOne == <<255, 255, 255, 255>>

\* 0xEDB88320
Polynomial == <<237, 184, 131, 32>>

\* a store with the least significant byte first
ToUint32LittleEndian(n) ==
    <<n % 256, (n \div 256) % 256, (n \div 65536) % 256, (n \div 16777216) % 256>>

\* ToUint32 of a non-negative number below 2^31, as setUint32 stores it
\* (big-endian: the most significant byte at the lowest offset)
ToUint32(n) ==
    <<(n \div 16777216) % 256, (n \div 65536) % 256, (n \div 256) % 256, n % 256>>

\* The number a word stands for, as far as the program compares it with
\* offsets inside a buffer. A word of 2^30 or more is reported as 2^30: the
\* program uses a chunk length only in offset + length + k against
\* bytes.length, and no generated buffer is that long, so every length of
\* 2^30 or more behaves alike (as a JavaScript double it never overflows).
Huge == 1073741824
ToNumber(w) ==
    IF w[1] >= 64 THEN Huge
    ELSE w[1] * 16777216 + w[2] * 65536 + w[3] * 256 + w[4]

(***************************************************************************)
(* crcTable and crc32 (apngUtils).                                         *)
(***************************************************************************)
\* c = (c & 1) ? (0xEDB88320 ^ (c >>> 1)) : (c >>> 1), k times
RECURSIVE TableLoop(_, _)
TableLoop(c, k) ==
    IF k = 0 THEN c
    ELSE IF c[4] % 2 = 1
         THEN TableLoop(XorWord(Polynomial, Shr1(c)), k - 1)
         ELSE TableLoop(Shr1(c), k - 1)

crcTable == [i \in 0..255 |-> TableLoop(<<0, 0, 0, i>>, 8)]

\* buf[o] of a Uint8Array: the byte, or undefined outside the array, which
\* crc ^ undefined turns into 0
ByteOrUndefined(buf, o) ==
    IF o >= 0 /\ o < Len(buf) THEN buf[o + 1] ELSE 0

\* the table index (crc ^ buf[start + i]) & 0xFF
TableIndex(crc, b) == XorByte(crc[4], b)

\* the value crc starts from: let crc = -1
crcInitial == MinusOne

RECURSIVE crc32Loop(_, _, _, _, _)
crc32Loop(buf, start, len, i, crc) ==
    IF i >= len THEN crc
    ELSE crc32Loop(buf, start, len, i + 1,
                   XorWord(Shr8(crc),
                           crcTable[TableIndex(crc, ByteOrUndefined(buf, start + i))]))

crc32(buf, start, len) ==
    XorWord(crc32Loop(buf, start, len, 0, crcInitial), MinusOne)

(***************************************************************************)
(* DataView reads and writes.                                              *)
(***************************************************************************)
\* whether the 4 bytes at offset o lie inside the buffer; getUint32 and
\* setUint32 throw a RangeError when they do not
InRange(buf, o) == o >= 0 /\ o + 4 <= Len(buf)

\* view.getUint32(o): big-endian, the byte at o is the most significant
getUint32(buf, o) == <<buf[o + 1], buf[o + 2], buf[o + 3], buf[o + 4]>>

\* view.setUint32(o, w): big-endian, in place
setUint32(buf, o, w) ==
    SubSeq(buf, 1, o) \o w \o SubSeq(buf, o + 5, Len(buf))

(***************************************************************************)
(* setApngLoopCount (apngUtils).                                           *)
(*                                                                         *)
(* The result is a record:                                                 *)
(*   buffer     the ArrayBuffer after the call (patched in place)          *)
(*   debugInfo  the lines of the report, each by its fixed text            *)
(*   threw      TRUE when a DataView access threw a RangeError, so that    *)
(*              the call returned nothing                                  *)
(*   foundAcTL  the flag of the same name                                  *)
(*   offset     the cursor when the loop ended                             *)
(*   length     the length read at the acTL chunk (0 when none was found)  *)
(*   visited    the cursor at the head of each iteration, in order         *)
(*   outside    TRUE when crc32 read a byte outside the array              *)
(***************************************************************************)
\* "acTL" chunk = 0x6163544C
acTL == <<97, 99, 84, 76>>

\* the first chunk starts after the 8-byte signature: let offset = 8
FirstChunkOffset == 8

\* a patcher that takes the first data field for the play count
NumPlaysOffsetFirstField(offset) == offset + 8

\* num_plays is at offset + 8 (header) + 4 (num_frames)
NumPlaysOffset(offset) == offset + 12

\* the chunk's CRC follows its data: offset + 8 + length
CrcOffset(offset, length) == offset + 8 + length

\* Move to next chunk: length + 4 (len) + 4 (type), and 4 of CRC
\* a step that forgets the 4 checksum bytes
NextChunkOffsetNoCrc(offset, length) == offset + length + 8
\* a step that forgets the length and checksum fields
NextChunkOffsetTypeOnly(offset, length) == offset + length + 4
NextChunkOffset(offset, length) == offset + length + 12

\* a patcher that checksums the data without the type tag
ChunkCrcDataOnly(bytes, offset, length) == crc32(bytes, offset + 8, length)

\* the bytes the CRC covers: crc32(bytes, offset + 4, length + 4)
ChunkCrc(bytes, offset, length) == crc32(bytes, offset + 4, length + 4)

\* a patcher that says nothing when it found no chunk
ReportEndSilent(debugInfo, foundAcTL) == debugInfo

\* the lines after the loop: if (!foundAcTL) debugInfo += "acTL chunk NOT found!"
ReportEnd(debugInfo, foundAcTL) ==
    IF ~foundAcTL THEN Append(debugInfo, "acTL chunk NOT found!") ELSE debugInfo

\* the body of if (type === 0x6163544C) { ... break; }
PatchAcTL(bytes, count, offset, length, debugInfo, visited) ==
    LET base == [buffer |-> bytes, debugInfo |-> debugInfo, threw |-> TRUE,
                 foundAcTL |-> TRUE, offset |-> offset, length |-> length,
                 visited |-> visited, outside |-> FALSE]
        found == Append(debugInfo, "Found acTL")
        written == setUint32(bytes, NumPlaysOffset(offset), ToUint32(count))
        crc == ChunkCrc(written, offset, length)
        pastEnd == CrcOffset(offset, length) > Len(bytes)
    IN  IF ~InRange(bytes, NumPlaysOffset(offset))
        THEN \* const oldNumPlays = view.getUint32(offset + 12) throws
             base
        ELSE IF ~InRange(written, CrcOffset(offset, length))
        THEN \* const oldCrc = view.getUint32(offset + 8 + length) throws,
             \* after num_plays was written and crc32 ran
             [base EXCEPT !.buffer = written, !.debugInfo = found,
                          !.outside = pastEnd]
        ELSE [base EXCEPT
                !.buffer = setUint32(written, CrcOffset(offset, length), crc),
                !.debugInfo = ReportEnd(Append(found, "Updated CRC"), TRUE),
                !.threw = FALSE]

\* while (offset < bytes.length) { ... }
RECURSIVE Walk(_, _, _, _, _)
Walk(bytes, count, offset, debugInfo, visited) ==
    LET stop(info) ==
            [buffer |-> bytes, debugInfo |-> ReportEnd(info, FALSE),
             threw |-> FALSE, foundAcTL |-> FALSE, offset |-> offset,
             length |-> 0, visited |-> visited, outside |-> FALSE]
    IN  IF ~(offset < Len(bytes)) THEN stop(debugInfo)
        ELSE IF offset + 8 > Len(bytes)
        THEN stop(Append(debugInfo, "Unexpected end of file"))
        ELSE LET length == ToNumber(getUint32(bytes, offset))
                 type == getUint32(bytes, offset + 4)
                 info == Append(debugInfo, "Found chunk")
                 seen == Append(visited, offset)
             IN  IF type = acTL
                 THEN PatchAcTL(bytes, count, offset, length, info, seen)
                 ELSE Walk(bytes, count, NextChunkOffset(offset, length), info, seen)

setApngLoopCount(bytes, count) ==
    Walk(bytes, count, FirstChunkOffset, <<"Total size">>, <<>>)

(***************************************************************************)
(* The patch step of handleExport: if (loopCount !== 0) { ... }.           *)
(***************************************************************************)
\* the options of the Loop Count select: 0 (infinite) and 1..4
MaxLoopCount == 4

\* a handler that patches whatever the loop count
PatchAlways(count) == TRUE

PatchRequested(count) == count # 0

\* the state of res before any call
NoResult(bytes) ==
    [buffer |-> bytes, debugInfo |-> <<>>, threw |-> FALSE, foundAcTL |-> FALSE,
     offset |-> 0, length |-> 0, visited |-> <<>>, outside |-> FALSE]

(***************************************************************************)
(* The standard CRC-32 of the container format, bit by bit (the reference  *)
(* the patcher's table-driven crc32 is compared with): reflected,          *)
(* polynomial 0xEDB88320, register preset to all ones, result              *)
(* complemented.                                                           *)
(***************************************************************************)
RECURSIVE StdCrcBits(_, _)
StdCrcBits(reg, k) ==
    IF k = 0 THEN reg
    ELSE IF reg[4] % 2 = 1
         THEN StdCrcBits(XorWord(Shr1(reg), <<237, 184, 131, 32>>), k - 1)
         ELSE StdCrcBits(Shr1(reg), k - 1)

RECURSIVE StdCrcBytes(_, _)
StdCrcBytes(reg, s) ==
    IF s = <<>> THEN reg
    ELSE StdCrcBytes(StdCrcBits(XorWord(reg, <<0, 0, 0, Head(s)>>), 8), Tail(s))

StdCrc32(s) ==
    XorWord(StdCrcBytes(<<255, 255, 255, 255>>, s), <<255, 255, 255, 255>>)

(***************************************************************************)
(* The containers the patcher is tried on: a signature (right or wrong),   *)
(* up to MaxChunks chunks of the menu below, and up to MaxCut bytes cut    *)
(* off the end.                                                            *)
(***************************************************************************)
\* 89 50 4E 47 0D 0A 1A 0A
PngSignature == <<137, 80, 78, 71, 13, 10, 26, 10>>
WrongSignature == <<137, 80, 78, 71, 13, 10, 26, 11>>

IEND == <<73, 69, 78, 68>>
IDAT == <<73, 68, 65, 84>>
tEXt == <<116, 69, 88, 116>>

\* a chunk length as the format stores it: 4 bytes, most significant first
\* (the generated chunks are shorter than 256 bytes)
LengthField(n) == <<0, 0, 0, n>>

\* a chunk as the format defines it: length, type, data, CRC of type and data
Chunk(type, chunkData) ==
    LengthField(Len(chunkData)) \o type \o chunkData \o StdCrc32(type \o chunkData)

ChunkMenu ==
    { Chunk(IEND, <<>>),
      \* the four bytes "acTL" inside another chunk's data
      Chunk(tEXt, acTL),
      \* the four bytes "acTL" where another chunk has its checksum
      LengthField(0) \o IDAT \o acTL,
      \* animation control: 2 frames, play count 0 (the encoder's default)
      Chunk(acTL, <<0, 0, 0, 2, 0, 0, 0, 0>>),
      \* animation control already patched to 3 plays
      Chunk(acTL, <<0, 0, 0, 2, 0, 0, 0, 3>>),
      \* animation control with a stale checksum
      LengthField(8) \o acTL \o <<0, 0, 0, 2, 0, 0, 0, 0>> \o <<1, 2, 3, 4>>,
      \* animation control with too little data for a play count
      Chunk(acTL, <<0, 0, 0, 2>>),
      Chunk(acTL, <<>>),
      \* a length field that points far past the end
      <<255, 255, 255, 255>> \o IDAT \o <<7, 7>>,
      <<255, 255, 255, 255>> \o acTL \o <<0, 0, 0, 2, 0, 0, 0, 0>> }

RECURSIVE ChunkStreams(_)
ChunkStreams(n) ==
    IF n = 0 THEN { <<>> }
    ELSE LET shorter == ChunkStreams(n - 1)
         IN shorter \cup { s \o c : s \in shorter, c \in ChunkMenu }

CutOff(s, k) == SubSeq(s, 1, IF Len(s) > k THEN Len(s) - k ELSE 0)

Containers ==
    { CutOff(sig \o s, k) :
        sig \in {PngSignature, WrongSignature},
        s \in ChunkStreams(MaxChunks),
        k \in 0..MaxCut }

(***************************************************************************)
(* The patcher's specification: a container and a loop count are chosen,   *)
(* and either setApngLoopCount is called on them directly or the patch     *)
(* step of handleExport runs on them.                                      *)
(***************************************************************************)
CleanerOff ==
    /\ cpc = "idle"
    /\ width = 0
    /\ height = 0
    /\ original = <<>>
    /\ data = <<>>
    /\ previous = <<>>
    /\ passes = 0

\* the n-th object URL made by URL.createObjectURL
ObjectUrl(n) == <<"blob", n>>

\* The component before it is mounted: its state hooks hold their defaults
\* and no export runs.
Unmounted ==
    [animationType |-> "bounce", text |-> "", duration |-> 1000,
     isExporting |-> FALSE, imageSrc |-> <<>>, loading |-> {},
     imageRef |-> <<>>, request |-> <<>>, epc |-> "off", captured |-> <<>>,
     frames |-> <<>>, delays |-> <<>>, trace |-> <<>>, encoded |-> <<>>,
     result |-> <<>>, downloaded |-> <<>>, alerts |-> 0, now |-> 0,
     shown |-> <<>>]

\* the component is in the state st
PreviewIs(st) ==
    /\ animationType = st.animationType
    /\ text = st.text
    /\ duration = st.duration
    /\ isExporting = st.isExporting
    /\ imageSrc = st.imageSrc
    /\ loading = st.loading
    /\ imageRef = st.imageRef
    /\ request = st.request
    /\ epc = st.epc
    /\ captured = st.captured
    /\ frames = st.frames
    /\ delays = st.delays
    /\ trace = st.trace
    /\ encoded = st.encoded
    /\ result = st.result
    /\ downloaded = st.downloaded
    /\ alerts = st.alerts
    /\ now = st.now
    /\ shown = st.shown

\* the component is put into the state st
PreviewBecomes(st) ==
    /\ animationType' = st.animationType
    /\ text' = st.text
    /\ duration' = st.duration
    /\ isExporting' = st.isExporting
    /\ imageSrc' = st.imageSrc
    /\ loading' = st.loading
    /\ imageRef' = st.imageRef
    /\ request' = st.request
    /\ epc' = st.epc
    /\ captured' = st.captured
    /\ frames' = st.frames
    /\ delays' = st.delays
    /\ trace' = st.trace
    /\ encoded' = st.encoded
    /\ result' = st.result
    /\ downloaded' = st.downloaded
    /\ alerts' = st.alerts
    /\ now' = st.now
    /\ shown' = st.shown

PreviewOff == PreviewIs(Unmounted)

\* The page before it is mounted.
PageOff ==
    /\ ppc = "off"
    /\ calls = 0
    /\ originalImage = <<>>
    /\ processedImage = <<>>
    /\ isProcessing = FALSE
    /\ error = "null"
    /\ isBgRemovalEnabled = TRUE
    /\ extraction = "none"
    /\ created = 0
    /\ revoked = {}
    /\ messages = <<>>

PatchInit ==
    /\ pc = "ready"
    /\ caller = "none"
    /\ buffer \in Containers
    /\ loopCount \in 0..MaxLoopCount
    /\ res = NoResult(buffer)
    /\ CleanerOff
    /\ PreviewOff
    /\ PageOff

\* setApngLoopCount(buffer, loopCount), called as the exported function
DirectCall ==
    /\ pc = "ready"
    /\ caller' = "direct"
    /\ res' = setApngLoopCount(buffer, loopCount)
    /\ pc' = IF res'.threw THEN "threw" ELSE "returned"
    /\ UNCHANGED <<buffer, loopCount>>
    /\ UNCHANGED outsidePatch

\* handleExport, after UPNG.encode: the patch is applied only to a finite
\* loop count
ApplyLoopCount ==
    /\ pc = "ready"
    /\ caller' = "handleExport"
    /\ IF PatchRequested(loopCount)
       THEN /\ res' = setApngLoopCount(buffer, loopCount)
            /\ pc' = IF res'.threw THEN "threw" ELSE "returned"
       ELSE /\ res' = NoResult(buffer)
            /\ pc' = "unpatched"
    /\ UNCHANGED <<buffer, loopCount>>
    /\ UNCHANGED outsidePatch

PatchNext == DirectCall \/ ApplyLoopCount

SpecPatch == PatchInit /\ [][PatchNext]_vars

(***************************************************************************)
(* What the claims about the patcher are stated with.                      *)
(***************************************************************************)
\* a call of setApngLoopCount was made and ended (by return or by throw)
Called == pc \in {"returned", "threw"}

\* the value of 4 bytes read most significant byte first
BigEndian(w) == ((w[1] * 256 + w[2]) * 256 + w[3]) * 256 + w[4]

\* the bytes at JavaScript offsets from..(to - 1)
Slice(buf, from, to) == SubSeq(buf, from + 1, to)

Range(s) == { s[i] : i \in 1..Len(s) }

\* The chunk stream as the format defines it: from offset 8, each chunk is
\* a 4-byte length L, a 4-byte type, L bytes of data and a 4-byte CRC; a
\* chunk starts wherever 8 bytes of header are left.
\* (a length of 2^30 or more points past the end of any generated buffer
\* and is counted as 2^30)
RefLength(w) == IF w[1] >= 64 THEN 1073741824 ELSE BigEndian(w)

RECURSIVE RefChunkStarts(_, _)
RefChunkStarts(buf, o) ==
    IF o + 8 > Len(buf) THEN {}
    ELSE {o} \cup RefChunkStarts(buf, o + 12 + RefLength(Slice(buf, o, o + 4)))

RefStreamHasAcTL(buf) ==
    \E o \in RefChunkStarts(buf, 8) : Slice(buf, o + 4, o + 8) = acTL

\* the acTL chunk the call stopped at lies wholly inside the buffer and
\* has room for frame count and play count
WholeAcTL ==
    /\ res.foundAcTL
    /\ res.length >= 8
    /\ res.offset + 12 + res.length <= Len(buffer)

\* C1: when the patcher finds an animation-control chunk and the loop count
\* is 1..4, the returned buffer is as long as the input and differs from it
\* at most in the 4 play-count bytes (chunk offset + 12..15) and the 4
\* checksum bytes that follow the chunk data; and for a chunk that lies
\* wholly inside the buffer the call does return.
C1_OnlyPatchedBytesDiffer ==
    (Called /\ res.foundAcTL /\ loopCount \in 1..4) =>
        LET o == res.offset
            L == res.length
            patched == ((o + 12)..(o + 15)) \cup ((o + 8 + L)..(o + 11 + L))
        IN  /\ pc = "returned" =>
                /\ Len(res.buffer) = Len(buffer)
                /\ \A i \in 0..(Len(buffer) - 1) :
                     i \notin patched => res.buffer[i + 1] = buffer[i + 1]
            /\ WholeAcTL => pc = "returned"

C1_Witness ==
    /\ pc = "returned"
    /\ res.foundAcTL
    /\ loopCount \in 1..4
    /\ WholeAcTL
    /\ res.buffer # buffer
    /\ Len(res.visited) = 2

\* C2: after a patch, the 4 bytes after the chunk data are the standard
\* CRC-32 (big-endian) of the 4 type bytes and the L data bytes as they
\* stand in the returned buffer.
C2_ChecksumIsStandardCrc ==
    (pc = "returned" /\ res.foundAcTL) =>
        LET o == res.offset
            L == res.length
        IN  Slice(res.buffer, o + 8 + L, o + 12 + L)
              = StdCrc32(Slice(res.buffer, o + 4, o + 8 + L))

C2_Witness ==
    /\ pc = "returned"
    /\ res.foundAcTL
    /\ WholeAcTL
    /\ loopCount = 3
    /\ BigEndian(Slice(buffer, res.offset + 12, res.offset + 16)) = 0
    /\ Slice(res.buffer, res.offset + 16, res.offset + 20)
         # Slice(buffer, res.offset + 16, res.offset + 20)

\* C3: after a patch of a chunk that holds both fields, the play count
\* (the 4 bytes at data start + 4) reads back big-endian as the requested
\* loop count and the frame count (the first 4 data bytes) is as it was.
C3_PlayCountReadsBack ==
    (pc = "returned" /\ res.foundAcTL /\ res.length >= 8) =>
        LET o == res.offset
        IN  /\ BigEndian(Slice(res.buffer, o + 12, o + 16)) = loopCount
            /\ Slice(res.buffer, o + 8, o + 12) = Slice(buffer, o + 8, o + 12)

C3_Witness ==
    /\ pc = "returned"
    /\ res.foundAcTL
    /\ res.length = 8
    /\ loopCount = 4
    /\ BigEndian(Slice(buffer, res.offset + 12, res.offset + 16)) = 3
    /\ BigEndian(Slice(res.buffer, res.offset + 12, res.offset + 16)) = 4

\* C4 as claimed: the patcher called with loop count 0 returns the input
\* unchanged, whatever the input (stated here for the calls that return
\* and whose animation-control chunk, if any, lies wholly inside the
\* buffer).
C4_ZeroIsIdentity ==
    (/\ caller = "direct"
     /\ loopCount = 0
     /\ pc = "returned"
     /\ (res.foundAcTL => WholeAcTL)) => res.buffer = buffer

\* C4 as amended: with loop count 0 handleExport does not call the patcher
\* and the bytes stay as they are; setApngLoopCount itself, called with 0,
\* returns the input unchanged when it finds no animation-control chunk,
\* and for a chunk wholly inside the buffer exactly when the play count
\* was already 0 and the checksum already right.
C4_ZeroLeavesDefaultContainer ==
    loopCount = 0 =>
        /\ caller = "handleExport" => (pc = "unpatched" /\ res.buffer = buffer)
        /\ (caller = "direct" /\ ~res.foundAcTL) =>
               (pc = "returned" /\ res.buffer = buffer)
        /\ (caller = "direct" /\ WholeAcTL) =>
               LET o == res.offset
                   L == res.length
               IN  /\ pc = "returned"
                   /\ (res.buffer = buffer) <=>
                        /\ BigEndian(Slice(buffer, o + 12, o + 16)) = 0
                        /\ Slice(buffer, o + 8 + L, o + 12 + L)
                             = StdCrc32(Slice(buffer, o + 4, o + 8 + L))

C4_Witness ==
    /\ caller = "direct"
    /\ loopCount = 0
    /\ pc = "returned"
    /\ WholeAcTL
    /\ res.buffer = buffer

\* C5: when the chunk stream holds no animation-control chunk, the call
\* returns the bytes unchanged and its report says that none was found.
C5_NotFoundLeavesBytes ==
    (Called /\ ~RefStreamHasAcTL(buffer)) =>
        /\ pc = "returned"
        /\ ~res.foundAcTL
        /\ res.buffer = buffer
        /\ "acTL chunk NOT found!" \in Range(res.debugInfo)

C5_Witness ==
    /\ pc = "returned"
    /\ loopCount = 2
    /\ ~RefStreamHasAcTL(buffer)
    /\ Len(res.visited) = 2
    /\ res.buffer = buffer
    /\ "acTL chunk NOT found!" \in Range(res.debugInfo)

\* C6 as claimed: bytes that do not begin with the 8-byte signature are
\* refused: a call with a loop count of 1..4 that returns gives them back
\* unchanged, also when an acTL tag sits at a chunk boundary.
C6_SignatureVerified ==
    (/\ pc = "returned"
     /\ loopCount \in 1..MaxLoopCount
     /\ (res.foundAcTL => WholeAcTL)
     /\ ~(Len(buffer) >= 8 /\ Slice(buffer, 0, 8) = PngSignature)) =>
        res.buffer = buffer

\* C7 as claimed: no call (here with a loop count of 1..4) throws or reads
\* outside the buffer, and a chunk cut short by the end of the buffer
\* leaves the bytes unchanged.
C7_NoAccessOutsideBuffer ==
    (Called /\ loopCount \in 1..MaxLoopCount) =>
        /\ pc # "threw"
        /\ ~res.outside
        /\ (res.foundAcTL /\ res.offset + 12 + res.length > Len(buffer)) =>
               res.buffer = buffer

(***************************************************************************)
(* The alpha cleanup of the image-load effect (AnimationPreview).          *)
(*                                                                         *)
(* imageData.data is a flat array of width * height * 4 bytes, R, G, B, A  *)
(* per pixel, row by row; the pixel at (x, y) starts at                    *)
(* idx = (y * width + x) * 4.                                              *)
(***************************************************************************)
\* const threshold = 60
threshold == 60

\* arr[i] < threshold for a typed array: outside the array the read gives
\* undefined, and undefined < 60 is false
BelowThreshold(arr, i) ==
    i >= 0 /\ i < Len(arr) /\ arr[i + 1] < threshold

\* a cleaner that wipes the whole pixel, colour included
ClearPixel(arr, idx) ==
    [arr EXCEPT ![idx + 1] = 0, ![idx + 2] = 0, ![idx + 3] = 0, ![idx + 4] = 0]

\* data[idx + 3] = 0
ClearAlpha(arr, idx) == [arr EXCEPT ![idx + 3 + 1] = 0]

\* a cleaner without the test of the pixel below
isEdgeNoDown(originalData, idx, x, y, w, h) ==
    IF x > 0 /\ BelowThreshold(originalData, idx - 4 + 3) THEN TRUE
    ELSE IF x < w - 1 /\ BelowThreshold(originalData, idx + 4 + 3) THEN TRUE
    ELSE IF y > 0 /\ BelowThreshold(originalData, idx - w * 4 + 3) THEN TRUE
    ELSE FALSE

\* let isEdge = false; if (left) ... else if (right) ... else if (up) ...
\* else if (down) isEdge = true
isEdge(originalData, idx, x, y, w, h) ==
    IF x > 0 /\ BelowThreshold(originalData, idx - 4 + 3) THEN TRUE
    ELSE IF x < w - 1 /\ BelowThreshold(originalData, idx + 4 + 3) THEN TRUE
    ELSE IF y > 0 /\ BelowThreshold(originalData, idx - w * 4 + 3) THEN TRUE
    ELSE IF y < h - 1 /\ BelowThreshold(originalData, idx + w * 4 + 3) THEN TRUE
    ELSE FALSE

\* a cleaner that tests the neighbours in the array it is writing
ReadInPlace(current, originalData) == current

\* the array the tests read: originalData, the copy taken before the loops
ReadSnapshot(current, originalData) == originalData

\* the body of the two loops for the pixel at (x, y)
CleanPixel(current, originalData, x, y, w, h) ==
    LET idx == (y * w + x) * 4
        source == ReadSnapshot(current, originalData)
    IN  IF BelowThreshold(source, idx + 3) THEN ClearAlpha(current, idx)
        ELSE IF isEdge(source, idx, x, y, w, h) THEN ClearAlpha(current, idx)
        ELSE current

\* for (y ...) for (x ...), as one loop over k = y * width + x
RECURSIVE CleanLoop(_, _, _, _, _)
CleanLoop(k, current, originalData, w, h) ==
    IF k >= w * h THEN current
    ELSE CleanLoop(k + 1,
                   CleanPixel(current, originalData, k % w, k \div w, w, h),
                   originalData, w, h)

\* const originalData = new Uint8ClampedArray(data); the loops; the result
\* is what putImageData writes back
cleanAlpha(imageData, w, h) == CleanLoop(0, imageData, imageData, w, h)

(***************************************************************************)
(* The bitmaps the cleaner is tried on: every width and height with at     *)
(* most MaxPixels pixels, every split of the pixels into faint and solid   *)
(* ones, with the two alpha values on either side of the threshold or far  *)
(* from it. The cleaner never reads a colour byte; each pixel gets colour  *)
(* bytes of its own so that a change to them shows.                        *)
(***************************************************************************)
AlphaLevels == { <<0, 255>>, <<59, 60>> }

Pixel(k, alpha) == <<(40 * k + 17) % 256, 200 - k, (k * k + 1) % 256, alpha>>

RECURSIVE BitmapBytes(_, _, _, _)
BitmapBytes(k, n, solid, levels) ==
    IF k >= n THEN <<>>
    ELSE Pixel(k, IF k \in solid THEN levels[2] ELSE levels[1])
           \o BitmapBytes(k + 1, n, solid, levels)

PatcherOff ==
    /\ pc = "off"
    /\ caller = "none"
    /\ buffer = <<>>
    /\ loopCount = 0
    /\ res = NoResult(<<>>)

CleanInit ==
    /\ cpc = "loaded"
    /\ width \in 1..MaxPixels
    /\ height \in 1..MaxPixels
    /\ width * height <= MaxPixels
    /\ \E solid \in SUBSET (0..(width * height - 1)), levels \in AlphaLevels :
         original = BitmapBytes(0, width * height, solid, levels)
    /\ data = original
    /\ previous = original
    /\ passes = 0
    /\ PatcherOff
    /\ PreviewOff
    /\ PageOff

\* img.onload: one cleaning pass over the bytes of the off-screen canvas
CleanImage ==
    /\ cpc \in {"loaded", "cleaned"}
    /\ passes < MaxPasses
    /\ previous' = data
    /\ data' = cleanAlpha(data, width, height)
    /\ passes' = passes + 1
    /\ cpc' = "cleaned"
    /\ UNCHANGED <<width, height, original>>
    /\ UNCHANGED outsideClean

CleanNext == CleanImage

SpecClean == CleanInit /\ [][CleanNext]_vars

(***************************************************************************)
(* What the claims about the cleaner are stated with.                      *)
(***************************************************************************)
PixelXs == 0..(width - 1)
PixelYs == 0..(height - 1)

\* the channel c (0 = R .. 3 = A) of the pixel at (x, y) of a bitmap
Channel(bitmap, x, y, c) == bitmap[(y * width + x) * 4 + c + 1]
AlphaAt(bitmap, x, y) == Channel(bitmap, x, y, 3)

\* the left, right, upper and lower neighbours of (x, y) that exist
Neighbours(x, y) ==
    { p \in { <<x - 1, y>>, <<x + 1, y>>, <<x, y - 1>>, <<x, y + 1>> } :
        p[1] \in PixelXs /\ p[2] \in PixelYs }

\* C8: a cleaning pass gives a bitmap of the same size in which no alpha
\* is higher than before and every R, G and B byte is as before.
C8_AlphaOnlyDecreases ==
    cpc = "cleaned" =>
        /\ Len(data) = width * height * 4
        /\ Len(data) = Len(previous)
        /\ \A x \in PixelXs, y \in PixelYs :
             /\ AlphaAt(data, x, y) <= AlphaAt(previous, x, y)
             /\ AlphaAt(data, x, y) <= AlphaAt(original, x, y)
             /\ \A c \in 0..2 : Channel(data, x, y, c) = Channel(original, x, y, c)

C8_Witness ==
    /\ cpc = "cleaned"
    /\ passes = 1
    /\ width = 3
    /\ height = 3
    /\ \E x \in PixelXs, y \in PixelYs : AlphaAt(data, x, y) < AlphaAt(original, x, y)
    /\ \E x \in PixelXs, y \in PixelYs : AlphaAt(data, x, y) = 255

\* C9 as claimed: a second pass over a cleaned bitmap changes nothing.
C9_Idempotent ==
    passes = 2 => data = previous

\* C9 as amended: a second pass clears exactly the pixels that survived
\* the first pass and have a left, right, upper or lower neighbour that
\* the first pass left at alpha 0, and changes nothing else; so cleaning
\* twice equals cleaning once exactly when no surviving pixel touches a
\* cleared one.
C9_SecondPassErodesOneRing ==
    passes >= 2 =>
        LET touchesCleared(x, y) ==
                \E p \in Neighbours(x, y) : AlphaAt(previous, p[1], p[2]) = 0
            survivor(x, y) == AlphaAt(previous, x, y) # 0
        IN  /\ \A x \in PixelXs, y \in PixelYs :
                 /\ AlphaAt(data, x, y) =
                      IF survivor(x, y) /\ touchesCleared(x, y)
                      THEN 0 ELSE AlphaAt(previous, x, y)
                 /\ \A c \in 0..2 :
                      Channel(data, x, y, c) = Channel(previous, x, y, c)
            /\ (data = previous) <=>
                 ~ \E x \in PixelXs, y \in PixelYs :
                     survivor(x, y) /\ touchesCleared(x, y)

C9_Witness ==
    /\ passes = 2
    /\ data # previous
    /\ previous # original
    /\ \E x \in PixelXs, y \in PixelYs : AlphaAt(data, x, y) # 0

RECURSIVE Gcd(_, _)
Gcd(a, b) == IF b = 0 THEN a ELSE Gcd(b, a % b)

Fraction(n, d) == LET g == Gcd(n, d) IN <<n \div g, d \div g>>

SinZero == [sign |-> 0, arc |-> <<0, 1>>]

\* Math.sin(2 * PI * n / d)
MathSin(n, d) ==
    LET m == n % d
    IN  IF (2 * m) % d = 0 THEN SinZero
        ELSE IF 4 * m <= d THEN [sign |-> 1, arc |-> Fraction(m, d)]
        ELSE IF 2 * m < d THEN [sign |-> 1, arc |-> Fraction(d - 2 * m, 2 * d)]
        ELSE IF 4 * m <= 3 * d THEN [sign |-> -1, arc |-> Fraction(2 * m - d, 2 * d)]
        ELSE [sign |-> -1, arc |-> Fraction(d - m, d)]

\* (base + amp * s) / 10
Number(base, amp, s) ==
    IF s.sign = 0 \/ amp = 0
    THEN [base |-> base, amp |-> 0, sin |-> SinZero]
    ELSE [base |-> base, amp |-> amp, sin |-> s]

(***************************************************************************)
(* drawFrame: the phase t, the four numbers of the transform, and the      *)
(* frame they put on a canvas of the given size.                           *)
(***************************************************************************)
AnimationTypes == {"none", "bounce", "shake", "pulse", "swing"}
CANVAS_WIDTH == 320
CANVAS_HEIGHT == 270

\* a phase counted against a fixed two-second cycle
PhaseOfTwoSeconds(time, cycle) == <<time % 2000, cycle>>

\* const t = (time % duration) / duration, as numerator and denominator
Phase(time, cycle) == <<time % cycle, cycle>>

\* Math.sin(rad * k) with rad = t * Math.PI * 2
SinRadTimes(t, k) == MathSin(k * t[1], t[2])

\* a horizontal offset that a bounce moves as well
offsetXWithBounce(type, t) ==
    IF type \in {"shake", "bounce"} THEN Number(0, 100, SinRadTimes(t, 4))
    ELSE Number(0, 0, SinZero)

offsetX(type, t) ==
    IF type = "shake" THEN Number(0, 100, SinRadTimes(t, 4)) ELSE Number(0, 0, SinZero)

\* a bounce that starts at the top of its arc, a quarter turn ahead
offsetYFromTop(type, t) ==
    IF type = "bounce" THEN Number(0, 200, MathSin(8 * t[1] + t[2], 4 * t[2]))
    ELSE Number(0, 0, SinZero)

offsetY(type, t) ==
    IF type = "bounce" THEN Number(0, 200, SinRadTimes(t, 2)) ELSE Number(0, 0, SinZero)

scale(type, t) ==
    IF type = "pulse" THEN Number(10, 1, SinRadTimes(t, 1)) ELSE Number(10, 0, SinZero)

rotation(type, t) ==
    IF type = "swing" THEN Number(0, 2, SinRadTimes(t, 1)) ELSE Number(0, 0, SinZero)

drawFrame(img, time, type, caption, cycle, w, h) ==
    LET t == Phase(time, cycle)
    IN  [img |-> img, width |-> w, height |-> h,
         offsetX |-> offsetX(type, t), offsetY |-> offsetY(type, t),
         scale |-> scale(type, t),
         rotated |-> type = "swing", rotation |-> rotation(type, t),
         text |-> caption]

(***************************************************************************)
(* The preview loop.  animate is the requestAnimationFrame callback: it    *)
(* draws the frame of its timestamp on the preview canvas and asks for the *)
(* next callback, which comes one display frame or, after the tab was in   *)
(* the background, a whole cycle later.                                    *)
(***************************************************************************)
Durations == {1000, 2000, 3000, 4000}

\* The image of the effect on [imageSrc]: img as the browser decoded it
\* from src, and cleanedImg, made from the canvas the alpha cleanup ran on.
\* cleaned counts the runs of the cleanup on the pixels.
LoadedImage(src) == [src |-> src, cleaned |-> 0]
CleanedImage(img) == [src |-> img.src, cleaned |-> img.cleaned + 1]

\* an effect that asks for the next callback also while an export runs
ScheduledWhileExporting(type, caption, cycle, exporting) ==
    <<[animationType |-> type, text |-> caption, duration |-> cycle,
       isExporting |-> FALSE]>>

\* The effect on [animationType, isExporting, text, duration]: its cleanup
\* has cancelled the pending request, and it requests animate, which closes
\* over the four values of its render, unless an export runs.
Scheduled(type, caption, cycle, exporting) ==
    IF ~exporting
    THEN <<[animationType |-> type, text |-> caption, duration |-> cycle,
            isExporting |-> exporting]>>
    ELSE <<>>

DrawInit ==
    /\ animationType \in AnimationTypes
    /\ text = ""
    /\ duration \in Durations
    /\ loopCount = 4
    /\ isExporting = FALSE
    /\ imageSrc = ObjectUrl(1)
    /\ loading = {}
    /\ imageRef = <<CleanedImage(LoadedImage(imageSrc))>>
    /\ request = Scheduled(animationType, text, duration, isExporting)
    /\ epc = "idle"
    /\ captured = <<>>
    /\ frames = <<>>
    /\ delays = <<>>
    /\ trace = <<>>
    /\ encoded = <<>>
    /\ result = <<>>
    /\ downloaded = <<>>
    /\ alerts = 0
    /\ now \in 0..MaxStart
    /\ shown = <<>>
    /\ pc = "off"
    /\ caller = "none"
    /\ buffer = <<>>
    /\ res = NoResult(<<>>)
    /\ CleanerOff
    /\ PageOff

\* The browser calls the requested animate, with the values it closed over.
\* A callback that draws nothing makes no use of its timestamp: the clock of
\* the model, which is the timestamp of the next drawing callback, stays.
animate ==
    /\ epc \in {"idle", "waiting"}
    /\ request # <<>>
    /\ Len(shown) < MaxDraws
    /\ LET self == request[1]
       IN  /\ IF imageRef # <<>> /\ ~self.isExporting
              THEN /\ shown' =
                        Append(shown,
                               [time |-> now, type |-> self.animationType,
                                duration |-> self.duration, imageSrc |-> imageSrc,
                                frame |-> drawFrame(imageRef, now, self.animationType,
                                                    self.text, self.duration,
                                                    CANVAS_WIDTH, CANVAS_HEIGHT)])
                   /\ \E gap \in {FrameGap, self.duration} : now' = now + gap
              ELSE UNCHANGED <<shown, now>>
           /\ request' = IF ~self.isExporting THEN request ELSE <<>>
    /\ UNCHANGED <<animationType, text, duration, isExporting, imageSrc, loading,
                   imageRef, exportVars>>
    /\ UNCHANGED loopCount
    /\ UNCHANGED outsidePreview

DrawNext == animate

SpecDraw == DrawInit /\ [][DrawNext]_vars

\* C11: two frames animate drew of one animation kind and cycle duration, the
\* second one cycle duration after the first, are the same frame: the
\* transform is periodic in the elapsed time with the cycle duration as period.
C11_TransformPeriodic ==
    \A i \in DOMAIN shown : \A j \in DOMAIN shown :
        (/\ shown[i].type = shown[j].type
         /\ shown[i].duration = shown[j].duration
         /\ shown[j].time = shown[i].time + shown[i].duration)
        => shown[j].frame = shown[i].frame

\* two draws one cycle apart, in the middle of a cycle, away from the
\* identity transform
C11_Witness ==
    \E i \in DOMAIN shown : \E j \in DOMAIN shown :
        /\ shown[j].time = shown[i].time + shown[i].duration
        /\ shown[i].time % shown[i].duration # 0
        /\ shown[i].type = "bounce"
        /\ shown[i].duration = 3000
        /\ shown[i].frame.offsetY.amp # 0
        /\ shown[j].frame = shown[i].frame

(***************************************************************************)
(* The component's settings and its export handler.  handleExport runs in  *)
(* two pieces: from the click to the 100 ms timeout it waits for           *)
(* (ClickExport), and from the timeout to the end of the finally block     *)
(* (ResumeExport).  The second piece is synchronous, so nothing else runs  *)
(* inside it; what it did is visible in the state it leaves (epc =         *)
(* "settled") until the handler returns and its locals are gone            *)
(* (ExportReturn).  The values the handler reads from the component state  *)
(* are those of the render whose button was clicked (captured).            *)
(***************************************************************************)
Captions == {"", "OK"}

fps == 8
frameInterval == 1000 \div fps

\* a loop that also runs for i = totalFrames
totalFramesInclusive(cycle) == (cycle \div frameInterval) + 1

\* const totalFrames = Math.floor(duration / frameInterval)
totalFrames(cycle) == cycle \div frameInterval

\* sample times counted from one
SampleTimeFromOne(i) == (i + 1) * frameInterval

\* const time = i * frameInterval
SampleTime(i) == i * frameInterval

totalDuration(count, cycle) == IF count = 0 THEN cycle ELSE cycle * count

\* a limit of less than four seconds
isLineCompliantBelow(count, cycle) ==
    /\ totalDuration(count, cycle) < 4000
    /\ totalDuration(count, cycle) % 1000 = 0

isLineCompliant(count, cycle) ==
    /\ totalDuration(count, cycle) <= 4000
    /\ totalDuration(count, cycle) % 1000 = 0

\* export buttons that stay enabled while an export runs
ExportDisabledForSettingsOnly(exporting, type, count, cycle) ==
    type = "none" \/ (count # 0 /\ ~isLineCompliant(count, cycle))

\* export buttons that stay enabled for the kind "none"
ExportDisabledForDurationOnly(exporting, type, count, cycle) ==
    exporting \/ (count # 0 /\ ~isLineCompliant(count, cycle))

\* disabled={isExporting || animationType === "none" ||
\*           (loopCount !== 0 && !isLineCompliant)}
ExportDisabled(exporting, type, count, cycle) ==
    exporting \/ type = "none" \/ (count # 0 /\ ~isLineCompliant(count, cycle))

\* a handler without the guard on the image
ImageMissingIgnored(ref) == FALSE

\* if (!imageRef.current) return;
ImageMissing(ref) == ref = <<>>

\* the two export buttons: handleExport(CANVAS_WIDTH, CANVAS_HEIGHT, false)
\* and handleExport(240, 240, true)
ExportButtons ==
    { [targetWidth |-> CANVAS_WIDTH, targetHeight |-> CANVAS_HEIGHT, isMain |-> FALSE],
      [targetWidth |-> 240, targetHeight |-> 240, isMain |-> TRUE] }

\* the for loop of handleExport, from index i with what it has pushed so far
RECURSIVE RenderLoop(_, _, _, _, _)
RenderLoop(i, n, job, img, acc) ==
    IF i < n
    THEN LET time == SampleTime(i)
             imageData == drawFrame(img, time, job.animationType, job.text,
                                    job.duration, job.targetWidth, job.targetHeight)
         IN  IF Len(acc.frames) = i
             THEN RenderLoop(i + 1, n, job, img,
                             [frames |-> Append(acc.frames, imageData),
                              delays |-> Append(acc.delays, frameInterval),
                              trace |-> Append(acc.trace, <<"drawFrame", time>>)])
             ELSE acc
    ELSE acc

\* What UPNG.encode may do with n frames, as far as the handler can tell: it
\* throws, or it returns bytes.  The bytes are an animated PNG whose acTL
\* chunk counts n frames and 0 plays, or one of three outputs a patch cannot
\* be applied to as intended: no acTL chunk, the file cut before the acTL
\* checksum, and a wrong signature.
EncoderOutputs(n) ==
    LET animated == Chunk(acTL, <<0, 0, 0, n, 0, 0, 0, 0>>)
                      \o Chunk(IDAT, <<n>>) \o Chunk(IEND, <<>>)
    IN  { PngSignature \o animated,
          PngSignature \o Chunk(IDAT, <<n>>) \o Chunk(IEND, <<>>),
          SubSeq(PngSignature \o animated, 1, 24),
          WrongSignature \o animated }

\* the outputs for each number of frames an export can have
EncoderOutputsFor == [n \in {totalFrames(cycle) : cycle \in Durations} |-> EncoderOutputs(n)]

EncoderOutcomes(n) ==
    { [threw |-> TRUE, output |-> <<>>] }
      \cup { [threw |-> FALSE, output |-> b] : b \in EncoderOutputsFor[n] }

\* What the run meets outside the component: canvas.getContext("2d") gives
\* no context, or it gives one and the encoder behaves in one of its ways.
Surroundings(n) ==
    { [ctx |-> "null", enc |-> [threw |-> TRUE, output |-> <<>>]] }
      \cup { [ctx |-> "2d", enc |-> e] : e \in EncoderOutcomes(n) }

NoRun ==
    [frames |-> <<>>, delays |-> <<>>, trace |-> <<>>, encoded |-> <<>>,
     result |-> <<>>, downloaded |-> <<>>, alerts |-> 0]

\* a catch block that only logs
CaughtSilently(run) == run

\* the catch block: console.error and one alert
Caught(run) ==
    [run EXCEPT !.trace = Append(@, <<"alert">>), !.alerts = @ + 1]

\* the try block of handleExport with its catch, for the captured values
\* job, the image img, the context ctx and the encoder's behaviour enc
TryExport(job, img, ctx, enc) ==
    IF ctx = "null"
    THEN Caught(NoRun)
    ELSE
      LET n == totalFrames(job.duration)
          loop == RenderLoop(0, n, job, img,
                             [frames |-> <<>>, delays |-> <<>>, trace |-> <<>>])
          call == [frames |-> loop.frames, width |-> job.targetWidth,
                   height |-> job.targetHeight, cnum |-> 0,
                   delays |-> loop.delays,
                   threw |-> enc.threw, output |-> enc.output]
          rendered == [NoRun EXCEPT !.frames = loop.frames,
                                    !.delays = loop.delays,
                                    !.trace = Append(loop.trace, <<"UPNG.encode">>),
                                    !.encoded = <<call>>]
      IN
        IF enc.threw THEN Caught(rendered)
        ELSE
          LET patch == PatchRequested(job.loopCount)
              r == setApngLoopCount(enc.output, job.loopCount)
              patched ==
                IF patch
                THEN [rendered EXCEPT !.trace = Append(@, <<"setApngLoopCount">>),
                                      !.result = <<r>>]
                ELSE rendered
              apngBuffer == IF patch THEN r.buffer ELSE enc.output
          IN
            IF patch /\ r.threw THEN Caught(patched)
            ELSE [patched EXCEPT
                    !.trace = Append(@, <<"a.click">>),
                    !.downloaded =
                       <<[bytes |-> apngBuffer,
                          prefix |-> IF job.isMain THEN "main" ELSE "sticker",
                          animationType |-> job.animationType]>>]

\* The component after its first render and effects, for the prop src: the
\* image is requested and animate is requested.
FirstRender(src) ==
    [Unmounted EXCEPT !.imageSrc = src,
                      !.loading = {LoadedImage(src)},
                      !.request = Scheduled(Unmounted.animationType, Unmounted.text,
                                            Unmounted.duration, Unmounted.isExporting),
                      !.epc = "idle"]

Mounted(src) == PreviewIs(FirstRender(src)) /\ loopCount = 4

PreviewMounted == Mounted(ObjectUrl(1))

\* setApngLoopCount is not called on its own
PatchCallOff ==
    /\ pc = "off"
    /\ caller = "none"
    /\ buffer = <<>>
    /\ res = NoResult(<<>>)

PreviewInit ==
    /\ PreviewMounted
    /\ PatchCallOff
    /\ CleanerOff
    /\ PageOff

\* img.onload with a 2D context: the alpha cleanup runs on the canvas the
\* image was drawn on, and cleanedImg is requested from its data URL
ImageCleaned ==
    /\ epc \in {"idle", "waiting"}
    /\ \E img \in {l \in loading : l.cleaned = 0} :
         loading' = (loading \ {img}) \cup {CleanedImage(img)}
    /\ UNCHANGED <<animationType, text, loopCount, duration, isExporting,
                   imageSrc, imageRef, request, exportVars, now, shown>>
    /\ UNCHANGED outsidePreview

\* cleanedImg.onload, or img.onload without a context: the image arrives
ImageLoaded ==
    /\ epc \in {"idle", "waiting"}
    /\ \E img \in loading :
         /\ loading' = loading \ {img}
         /\ imageRef' = <<img>>
    /\ UNCHANGED <<animationType, text, loopCount, duration, isExporting,
                   imageSrc, request, exportVars, now, shown>>
    /\ UNCHANGED outsidePreview

\* a kind button: onClick={() => setAnimationType(type)} disabled={isExporting}
SetAnimationType(type) ==
    /\ epc \in {"idle", "waiting"}
    /\ ~isExporting
    /\ animationType' = type
    /\ request' = Scheduled(type, text, duration, isExporting)
    /\ UNCHANGED <<text, loopCount, duration, isExporting, imageSrc, loading,
                   imageRef, exportVars, now, shown>>
    /\ UNCHANGED outsidePreview

\* the text input, the Clear button and the preset buttons
SetText(caption) ==
    /\ epc \in {"idle", "waiting"}
    /\ text' = caption
    /\ request' = Scheduled(animationType, caption, duration, isExporting)
    /\ UNCHANGED <<animationType, loopCount, duration, isExporting, imageSrc,
                   loading, imageRef, exportVars, now, shown>>
    /\ UNCHANGED outsidePreview

\* the Loop Count select
SetLoopCount(count) ==
    /\ epc \in {"idle", "waiting"}
    /\ loopCount' = count
    /\ UNCHANGED <<animationType, text, duration, isExporting, imageSrc,
                   loading, imageRef, request, exportVars, now, shown>>
    /\ UNCHANGED outsidePreview

\* the Duration select
SetDuration(cycle) ==
    /\ epc \in {"idle", "waiting"}
    /\ duration' = cycle
    /\ request' = Scheduled(animationType, text, cycle, isExporting)
    /\ UNCHANGED <<animationType, text, loopCount, isExporting, imageSrc,
                   loading, imageRef, exportVars, now, shown>>
    /\ UNCHANGED outsidePreview

\* a click on an export button, which the browser delivers whenever the
\* button is not disabled: handleExport up to its await.  captured lists the
\* calls that have not returned, the latest last.
ClickExport(button) ==
    /\ epc \in {"idle", "waiting"}
    /\ ~ExportDisabled(isExporting, animationType, loopCount, duration)
    /\ captured' = Append(captured,
                          [animationType |-> animationType, text |-> text,
                           duration |-> duration, loopCount |-> loopCount,
                           targetWidth |-> button.targetWidth,
                           targetHeight |-> button.targetHeight,
                           isMain |-> button.isMain,
                           img |-> imageRef])
    /\ IF ImageMissing(imageRef)
       THEN /\ epc' = "settled"
            /\ isExporting' = isExporting
            /\ request' = request
       ELSE /\ epc' = "waiting"
            /\ isExporting' = TRUE
            /\ request' = Scheduled(animationType, text, duration, TRUE)
    /\ UNCHANGED <<animationType, text, loopCount, duration, imageSrc, loading,
                   imageRef, frames, delays, trace, encoded, result, downloaded, alerts,
                   now, shown>>
    /\ UNCHANGED outsidePreview

\* a handler that reads the settings of the latest render after its wait
LatestRender(job, latest) ==
    [job EXCEPT !.animationType = latest.animationType, !.text = latest.text,
                !.duration = latest.duration, !.loopCount = latest.loopCount]

\* The settings the code after the await reads: handleExport is a closure
\* of the render in which the button was clicked, so they are that render's
\* values job, whatever the latest render holds.
ClosedOver(job, latest) == job

\* the timeout fires: try, catch and finally of handleExport
ResumeExport ==
    /\ epc = "waiting"
    /\ \E job \in {ClosedOver(captured[1],
                               [animationType |-> animationType, text |-> text,
                                duration |-> duration, loopCount |-> loopCount])} :
       \E around \in Surroundings(totalFrames(job.duration)) :
         \E run \in {TryExport(job, imageRef, around.ctx, around.enc)} :
             /\ frames' = run.frames
             /\ delays' = run.delays
             /\ trace' = run.trace
             /\ encoded' = run.encoded
             /\ result' = run.result
             /\ downloaded' = run.downloaded
             /\ alerts' = run.alerts
    /\ isExporting' = FALSE
    /\ request' = Scheduled(animationType, text, duration, FALSE)
    /\ epc' = "settled"
    /\ UNCHANGED <<animationType, text, loopCount, duration, imageSrc, loading,
                   imageRef, captured, now, shown>>
    /\ UNCHANGED outsidePreview

\* handleExport returns
ExportReturn ==
    /\ epc = "settled"
    /\ epc' = "idle"
    /\ captured' = <<>>
    /\ frames' = <<>>
    /\ delays' = <<>>
    /\ trace' = <<>>
    /\ encoded' = <<>>
    /\ result' = <<>>
    /\ downloaded' = <<>>
    /\ alerts' = 0
    /\ UNCHANGED <<animationType, text, loopCount, duration, isExporting,
                   imageSrc, loading, imageRef, request, now, shown>>
    /\ UNCHANGED outsidePreview

PreviewNext ==
    \/ ImageCleaned
    \/ ImageLoaded
    \/ \E type \in AnimationTypes : SetAnimationType(type)
    \/ \E caption \in Captions : SetText(caption)
    \/ \E count \in 0..MaxLoopCount : SetLoopCount(count)
    \/ \E cycle \in Durations : SetDuration(cycle)
    \/ \E button \in ExportButtons : ClickExport(button)
    \/ ResumeExport
    \/ ExportReturn

SpecPreview == PreviewInit /\ [][PreviewNext]_vars

(***************************************************************************)
(* What the claims about an export run are stated with.                    *)
(***************************************************************************)
Job == captured[1]
Reached(name) == { k \in DOMAIN trace : trace[k][1] = name }
EncoderCalled == encoded # <<>>
Zero == [base |-> 0, amp |-> 0, sin |-> [sign |-> 0, arc |-> <<0, 1>>]]
ClickEnabled == \E button \in ExportButtons : ENABLED ClickExport(button)
DurationPolicy(count, cycle) ==
    count = 0 \/ (count * cycle <= 4000 /\ (count * cycle) % 1000 = 0)

\* C12, as stated: the frames handed to the encoder number
\* floor(totalDuration / 125), with totalDuration the loop count times the
\* cycle duration for a finite loop count, and every delay is 125 ms.
C12_FramesCoverTotalDuration ==
    EncoderCalled =>
        /\ Len(encoded[1].frames) =
             (IF Job.loopCount = 0 THEN Job.duration
              ELSE Job.loopCount * Job.duration) \div 125
        /\ \A k \in DOMAIN encoded[1].delays : encoded[1].delays[k] = 125

\* C12, amended: the frames handed to the encoder number
\* floor(cycle duration / 125), whatever the loop count, one delay of 125 ms
\* for each.
C12_FramesCoverOneCycle ==
    EncoderCalled =>
        /\ Len(encoded[1].frames) = Job.duration \div 125
        /\ Len(encoded[1].delays) = Len(encoded[1].frames)
        /\ \A k \in DOMAIN encoded[1].delays : encoded[1].delays[k] = 125

C12_Witness ==
    /\ EncoderCalled
    /\ Job.loopCount = 4
    /\ Job.duration = 1000
    /\ Len(encoded[1].frames) = 8
    /\ downloaded # <<>>

BounceScenario ==
    /\ EncoderCalled
    /\ Job.animationType = "bounce"
    /\ Job.duration = 1000
    /\ Job.loopCount = 4
    /\ Job.targetWidth = 320
    /\ Job.targetHeight = 270

C14_FramesInSampleOrder ==
    /\ Len(frames) = Len(delays)
    /\ EncoderCalled =>
         LET n == Len(encoded[1].frames)
         IN  /\ Len(encoded[1].delays) = n
             /\ Len(trace) > n
             /\ trace[n + 1] = <<"UPNG.encode">>
             /\ \A i \in 0..(n - 1) :
                  /\ trace[i + 1] = <<"drawFrame", i * 125>>
                  /\ encoded[1].frames[i + 1] =
                       drawFrame(Job.img, i * 125, Job.animationType, Job.text,
                                 Job.duration, Job.targetWidth, Job.targetHeight)

C14_Witness ==
    /\ EncoderCalled
    /\ Len(encoded[1].frames) = 16
    /\ Len(encoded[1].delays) = 16
    /\ encoded[1].frames[2] # encoded[1].frames[1]
    /\ trace[16] = <<"drawFrame", 1875>>

\* C15: with a loop count of 0..4 and a cycle duration of 1000..4000, an
\* export button can be clicked, as far as the duration goes, exactly when the
\* loop count is 0 or loop count times cycle duration is at most 4000 and a
\* multiple of 1000; every export that was started satisfies this; 3 x 1000
\* passes and 3 x 1500 does not.
C15_ExportPermittedIffCompliant ==
    /\ (epc = "idle" /\ ~isExporting /\ animationType # "none")
         => (ClickEnabled <=> DurationPolicy(loopCount, duration))
    /\ captured # <<>> => DurationPolicy(Job.loopCount, Job.duration)
    /\ (3 # 0 /\ ~isLineCompliant(3, 1000)) = FALSE
    /\ (3 # 0 /\ ~isLineCompliant(3, 1500)) = TRUE

C15_Witness ==
    /\ epc = "idle"
    /\ animationType = "bounce"
    /\ loopCount = 3
    /\ duration = 2000
    /\ ~ClickEnabled

\* C16: no export run has the kind "none": the export buttons cannot be
\* clicked while the kind is "none", the kind does not change while
\* isExporting is set, and what is rendered and delivered has the kind of the
\* click.
C16_NeverExportsKindNone ==
    /\ captured # <<>> => Job.animationType \in {"bounce", "shake", "pulse", "swing"}
    /\ isExporting => (captured # <<>> /\ animationType = Job.animationType)
    /\ animationType = "none" => ~ClickEnabled
    /\ downloaded # <<>> => downloaded[1].animationType # "none"

C16_Witness ==
    /\ epc = "settled"
    /\ EncoderCalled
    /\ downloaded # <<>>
    /\ Job.animationType = "swing"
    /\ animationType = "swing"

C18_PatchFailureStillDelivers ==
    (/\ epc = "settled"
     /\ result # <<>>
     /\ (result[1].threw \/ ~result[1].foundAcTL))
    => /\ downloaded # <<>>
       /\ downloaded[1].bytes = encoded[1].output
       /\ alerts = 0

\* C20: an export run calls the encoder at most once and the patcher at most
\* once, the patcher only for a loop count other than 0 (and then always
\* before a file is delivered), and in the order: every frame drawn, encode,
\* patch, delivery.
C20_EncodeOncePatchOnceInOrder ==
    /\ Cardinality(Reached("UPNG.encode")) <= 1
    /\ Cardinality(Reached("setApngLoopCount")) <= 1
    /\ Cardinality(Reached("a.click")) <= 1
    /\ Reached("setApngLoopCount") # {} => Job.loopCount # 0
    /\ \A d \in Reached("drawFrame") : \A e \in Reached("UPNG.encode") : d < e
    /\ \A e \in Reached("UPNG.encode") : \A q \in Reached("setApngLoopCount") : e < q
    /\ \A q \in Reached("setApngLoopCount") : \A c \in Reached("a.click") : q < c
    /\ \A e \in Reached("UPNG.encode") : \A c \in Reached("a.click") : e < c
    /\ Reached("setApngLoopCount") # {} => Reached("UPNG.encode") # {}
    /\ Reached("a.click") # {}
         => /\ Reached("UPNG.encode") # {}
            /\ Cardinality(Reached("drawFrame")) = Job.duration \div 125
            /\ Job.loopCount # 0 => Reached("setApngLoopCount") # {}

C20_Witness ==
    /\ epc = "settled"
    /\ Cardinality(Reached("drawFrame")) = 24
    /\ Reached("UPNG.encode") = {25}
    /\ Reached("setApngLoopCount") = {26}
    /\ Reached("a.click") = {27}

(***************************************************************************)
(* The page.  handleImageSelected runs in two pieces: up to the await of   *)
(* removeBackground (SelectImage; the whole handler when the background    *)
(* removal is switched off), and from the settled promise to the end of    *)
(* the finally block (RemoveResolved, RemoveRejected).  The cleanup of the *)
(* effect on [originalImage, processedImage] runs whenever a render        *)
(* changes one of the two, with the values of the render before.  The n-th *)
(* object URL is <<"blob", n>>.                                            *)
(***************************************************************************)
\* the effect's cleanup, for the values of the render that is replaced
Cleanup(original_, processed_, original__, processed__) ==
    IF original_ = original__ /\ processed_ = processed__
    THEN revoked
    ELSE revoked \cup ({original_, processed_} \ {<<>>})

\* {!originalImage ? (the upload screen) : (the workspace)}
UploaderShown(original_) == original_ = <<>>

\* a page that shows the component for every processed image
PreviewShownForProcessed(original_, processed_) == processed_ # <<>>

\* the workspace with {processedImage ? <AnimationPreview .../> : ...}
PreviewShown(original_, processed_) == original_ # <<>> /\ processed_ # <<>>

\* an uploader that takes files at any time
UploadNeverDisabled(processing) == FALSE

\* <input type="file" disabled={isProcessing}>, and handleDrop's
\* if (isProcessing) return;
UploadDisabled(processing) == processing

PageMounted ==
    /\ ppc = "idle"
    /\ calls = 0
    /\ originalImage = <<>>
    /\ processedImage = <<>>
    /\ isProcessing = FALSE
    /\ error = "null"
    /\ isBgRemovalEnabled = TRUE
    /\ extraction = "none"
    /\ created = 0
    /\ revoked = {}
    /\ messages = <<>>

\* What the handlers of the page do to the page's state, each up to the
\* render that follows it.

\* the checkbox of the upload screen
Toggled(checked) ==
    /\ ppc \in {"idle", "removing"}
    /\ UploaderShown(originalImage)
    /\ isBgRemovalEnabled' = checked
    /\ UNCHANGED <<ppc, calls, originalImage, processedImage, isProcessing, error,
                   extraction, created, revoked, messages>>

\* a file chosen or dropped on the uploader: handleImageSelected up to its
\* await, or to its end when the background removal is off
Selected ==
    /\ ppc \in {"idle", "removing"}
    /\ UploaderShown(originalImage)
    /\ ~UploadDisabled(isProcessing)
    /\ created < 2 * MaxUploads
    /\ LET objectUrl == ObjectUrl(created + 1)
       IN  /\ error' = "null"
           /\ messages' = <<"null">>
           /\ created' = created + 1
           /\ originalImage' = objectUrl
           /\ IF isBgRemovalEnabled
              THEN /\ isProcessing' = TRUE
                   /\ processedImage' = <<>>
                   /\ extraction' = "pending"
                   /\ calls' = calls + 1
                   /\ ppc' = "removing"
              ELSE /\ isProcessing' = FALSE
                   /\ processedImage' = objectUrl
                   /\ extraction' = "skipped"
                   /\ calls' = calls
                   /\ ppc' = ppc
    /\ revoked' = Cleanup(originalImage, processedImage, originalImage', processedImage')
    /\ UNCHANGED isBgRemovalEnabled

\* removeBackground resolves: the rest of the try block and the finally
Resolved ==
    /\ ppc = "removing"
    /\ calls > 0
    /\ calls' = calls - 1
    /\ created' = created + 1
    /\ processedImage' = ObjectUrl(created + 1)
    /\ isProcessing' = FALSE
    /\ extraction' = "resolved"
    /\ ppc' = IF calls = 1 THEN "idle" ELSE "removing"
    /\ revoked' = Cleanup(originalImage, processedImage, originalImage, processedImage')
    /\ UNCHANGED <<originalImage, error, isBgRemovalEnabled, messages>>

\* removeBackground rejects: the catch block and the finally
Rejected ==
    /\ ppc = "removing"
    /\ calls > 0
    /\ calls' = calls - 1
    /\ error' = "Failed to remove background. Please try again."
    /\ messages' = Append(messages, "Failed to remove background. Please try again.")
    /\ isProcessing' = FALSE
    /\ extraction' = "rejected"
    /\ ppc' = IF calls = 1 THEN "idle" ELSE "removing"
    /\ UNCHANGED <<originalImage, processedImage, isBgRemovalEnabled, created, revoked>>

\* the logo or the Start Over button
Reset ==
    /\ ppc \in {"idle", "removing"}
    /\ originalImage' = <<>>
    /\ processedImage' = <<>>
    /\ error' = "null"
    /\ revoked' = Cleanup(originalImage, processedImage, <<>>, <<>>)
    /\ UNCHANGED <<ppc, calls, isProcessing, isBgRemovalEnabled, extraction,
                   created, messages>>

\* The page by itself.
ToggleBgRemoval(checked) == Toggled(checked) /\ UNCHANGED outsidePage
SelectImage == Selected /\ UNCHANGED outsidePage
RemoveResolved == Resolved /\ UNCHANGED outsidePage
RemoveRejected == Rejected /\ UNCHANGED outsidePage
handleReset == Reset /\ UNCHANGED outsidePage

PageNext ==
    \/ \E checked \in BOOLEAN : ToggleBgRemoval(checked)
    \/ SelectImage
    \/ RemoveResolved
    \/ RemoveRejected
    \/ handleReset

(***************************************************************************)
(* The two asynchronous handlers side by side: the page with its           *)
(* extraction, and the component exporting with the settings it is mounted *)
(* with.                                                                   *)
(***************************************************************************)
HandlersInit ==
    /\ PreviewMounted
    /\ PageMounted
    /\ PatchCallOff
    /\ CleanerOff

HandlersNext ==
    \/ ImageCleaned
    \/ ImageLoaded
    \/ \E button \in ExportButtons : ClickExport(button)
    \/ ResumeExport
    \/ ExportReturn
    \/ PageNext

SpecHandlers == HandlersInit /\ [][HandlersNext]_vars

\* C19: when the encoder throws, the run delivers no file and shows exactly
\* one failure notice, and isExporting is cleared; when the extraction is
\* rejected, no processed image is set and exactly one error message is set,
\* and isProcessing is cleared.
C19_FailuresReportedOnce ==
    /\ (epc = "settled" /\ EncoderCalled /\ encoded[1].threw)
         => /\ downloaded = <<>>
            /\ Reached("a.click") = {}
            /\ alerts = 1
            /\ Cardinality(Reached("alert")) = 1
            /\ ~isExporting
    /\ epc \in {"idle", "settled"} => ~isExporting
    /\ extraction = "rejected"
         => /\ processedImage = <<>>
            /\ Cardinality({k \in DOMAIN messages : messages[k] # "null"}) = 1
            /\ error \in {"null", messages[Len(messages)]}
            /\ ~isProcessing
    /\ ppc = "idle" => ~isProcessing

C19_Witness ==
    /\ epc = "settled"
    /\ EncoderCalled
    /\ encoded[1].threw
    /\ alerts = 1
    /\ extraction = "rejected"
    /\ error # "null"
    /\ ppc = "idle"

(***************************************************************************)
(* The chunk walk of setApngLoopCount against the chunk stream as the      *)
(* format defines it.                                                      *)
(***************************************************************************)
RefTypeAt(buf, o) == Slice(buf, o + 4, o + 8)
RefAcTLStarts(buf) == { o \in RefChunkStarts(buf, 8) : RefTypeAt(buf, o) = acTL }
\* the chunks of the stream up to and including the first one tagged acTL
RefWalked(buf) ==
    { o \in RefChunkStarts(buf, 8) : \A a \in RefAcTLStarts(buf) : o <= a }

One == [base |-> 10, amp |-> 0, sin |-> [sign |-> 0, arc |-> <<0, 1>>]]
Identity(f, component) ==
    IF component = "scale" THEN f.scale = One ELSE f[component] = Zero
OwnComponent(type) ==
    IF type = "bounce" THEN {"offsetY"}
    ELSE IF type = "shake" THEN {"offsetX"}
    ELSE IF type = "pulse" THEN {"scale"}
    ELSE IF type = "swing" THEN {"rotation"}
    ELSE {}

\* C23: in every frame drawn, at any time and cycle duration, the components
\* of the transform other than the kind's own are at their identity values
\* (offsets 0, scale 1, rotation 0): none moves nothing, bounce only the
\* vertical offset, shake only the horizontal offset, pulse only the scale,
\* swing only the rotation, and only swing rotates the canvas.
C23_OnlyOwnComponentMoves ==
    \A i \in DOMAIN shown :
        /\ \A component \in {"offsetX", "offsetY", "scale", "rotation"} \ OwnComponent(shown[i].type) :
             Identity(shown[i].frame, component)
        /\ shown[i].frame.rotated <=> shown[i].type = "swing"

\* two frames of a shake away from the cycle boundary: the horizontal offset
\* is not 0 and differs between them, everything else is the identity
C23_Witness ==
    /\ Len(shown) = 2
    /\ shown[1].type = "shake"
    /\ shown[2].type = "shake"
    /\ ~Identity(shown[1].frame, "offsetX")
    /\ shown[1].frame.offsetX # shown[2].frame.offsetX
    /\ Identity(shown[1].frame, "offsetY")
    /\ Identity(shown[1].frame, "scale")
    /\ Identity(shown[1].frame, "rotation")

\* C24: at most one call of handleExport is in progress: while isExporting
\* is set, which is from the click until the finally block, neither export
\* button can be clicked, whatever the user does during the wait.
C24_OneExportAtATime ==
    /\ Len(captured) <= 1
    /\ isExporting => ~ClickEnabled
    /\ isExporting <=> epc = "waiting"
    /\ epc = "waiting" => Len(captured) = 1

\* a run in its wait, after the user has edited caption, loop count and
\* duration to values an idle component could export
C24_Witness ==
    /\ epc = "waiting"
    /\ isExporting
    /\ text # Job.text
    /\ duration # Job.duration
    /\ animationType # "none"
    /\ DurationPolicy(loopCount, duration)
    /\ ~ClickEnabled

(***************************************************************************)
(* The mounted component with its preview loop and an export, where every  *)
(* timer that was set fires: the 100 ms timeout of handleExport, after     *)
(* which the run goes to the end of its finally block and returns.         *)
(***************************************************************************)
LiveNext ==
    \/ ImageCleaned
    \/ ImageLoaded
    \/ \E caption \in Captions : SetText(caption)
    \/ \E button \in ExportButtons : ClickExport(button)
    \/ ResumeExport
    \/ ExportReturn
    \/ animate

SpecLive ==
    /\ PreviewInit
    /\ [][LiveNext]_vars
    /\ WF_vars(ResumeExport)
    /\ WF_vars(ExportReturn)

\* C25: an export that has set isExporting clears it again, whether it
\* delivers a file, the encoder or the patcher throws or there is no drawing
\* context, and with the step that clears it animate is requested again.
\* While isExporting is set no animate is requested and nothing is drawn on
\* the preview canvas.
C25_ExportEndsAndPreviewResumes ==
    /\ isExporting ~> (~isExporting /\ request # <<>>)
    /\ [][(isExporting /\ ~isExporting') => request' # <<>>]_vars
    /\ [](isExporting => request = <<>>)
    /\ [][isExporting => shown' = shown]_vars

\* an export that found no drawing context has ended, after the preview had
\* drawn a frame; animate is requested again
C25_Witness ==
    /\ epc = "settled"
    /\ ~ImageMissing(Job.img)
    /\ ~EncoderCalled
    /\ alerts = 1
    /\ ~isExporting
    /\ request # <<>>
    /\ Len(shown) = 1

\* C26: a run renders every frame with the kind, caption and cycle duration
\* of the click, as many frames as that duration gives, names the file after
\* that kind, and patches exactly when the loop count of the click is not 0,
\* with that loop count; what the settings hold when the wait ends plays no
\* part.
C26_RunUsesSettingsOfClick ==
    (epc = "settled" /\ EncoderCalled) =>
        /\ Len(frames) = Job.duration \div 125
        /\ \A i \in DOMAIN frames :
             frames[i] = drawFrame(imageRef, (i - 1) * 125, Job.animationType,
                                   Job.text, Job.duration,
                                   Job.targetWidth, Job.targetHeight)
        /\ encoded[1].frames = frames
        /\ ~encoded[1].threw =>
             result = IF Job.loopCount # 0
                      THEN <<setApngLoopCount(encoded[1].output, Job.loopCount)>>
                      ELSE <<>>
        /\ downloaded # <<>> => downloaded[1].animationType = Job.animationType

\* a file was delivered by a run clicked with a caption, 2 loops of 2000 ms,
\* after the user cleared the caption and chose endless loops of 1000 ms
\* during the wait
C26_Witness ==
    /\ epc = "settled"
    /\ downloaded # <<>>
    /\ Job.text # ""
    /\ text = ""
    /\ Job.duration = 2000
    /\ duration = 1000
    /\ Job.loopCount = 2
    /\ loopCount = 0
    /\ result # <<>>
    /\ Len(frames) = 16

(***************************************************************************)
(* The page with the component it hosts.  The render that follows a        *)
(* handler of the page mounts AnimationPreview when the workspace with a   *)
(* processed image comes up, unmounts it when that goes away, and hands a  *)
(* mounted component its new imageSrc otherwise; the effect on [imageSrc]  *)
(* then requests the new image, while the images requested before stay     *)
(* requested.  Unmounting cancels the requested animate; a component that  *)
(* is unmounted is not followed further.                                   *)
(***************************************************************************)
Rerender ==
    /\ epc # "settled"
    /\ LET before == PreviewShown(originalImage, processedImage)
           after == PreviewShown(originalImage', processedImage')
       IN  IF after /\ ~before
           THEN PreviewBecomes(FirstRender(processedImage')) /\ loopCount' = 4
           ELSE IF before /\ ~after
           THEN PreviewBecomes(Unmounted) /\ loopCount' = 4
           ELSE IF after /\ processedImage' # processedImage
           THEN /\ imageSrc' = processedImage'
                /\ loading' = loading \cup {LoadedImage(processedImage')}
                /\ UNCHANGED <<animationType, text, duration, isExporting,
                               imageRef, request, exportVars, now, shown>>
                /\ UNCHANGED loopCount
           ELSE UNCHANGED <<previewVars, loopCount>>
    /\ UNCHANGED <<patchCall, cleanVars>>

AppInit ==
    /\ PageMounted
    /\ PreviewOff
    /\ loopCount = 4
    /\ PatchCallOff
    /\ CleanerOff

AppNext ==
    \/ \E checked \in BOOLEAN : Toggled(checked) /\ Rerender
    \/ Selected /\ Rerender
    \/ Resolved /\ Rerender
    \/ Rejected /\ Rerender
    \/ Reset /\ Rerender
    \/ ImageCleaned
    \/ ImageLoaded
    \/ animate
    \/ \E button \in ExportButtons : ClickExport(button)
    \/ ResumeExport
    \/ ExportReturn

SpecApp == AppInit /\ [][AppNext]_vars

\* C27: an object URL that the page displays as the original, or displays
\* and hands to AnimationPreview as the processed image, has not been
\* revoked.
C27_NoReferencedUrlRevoked ==
    /\ originalImage # <<>> => originalImage \notin revoked
    /\ PreviewShown(originalImage, processedImage) => processedImage \notin revoked

\* C28: a processed image is only ever held together with an original.
C28_ProcessedImpliesOriginal ==
    processedImage # <<>> => originalImage # <<>>

\* C29: never more than one removeBackground promise is unsettled, and
\* isProcessing is set exactly while one is; while it is set the uploader
\* takes no file, also when a reset has brought the upload screen back.
C29_OneRemovalAtATime ==
    /\ calls <= 1
    /\ isProcessing <=> calls = 1
    /\ ppc = "removing" <=> calls > 0
    /\ isProcessing => ~ENABLED Selected

\* the upload screen is back after a reset while the removal still runs
C29_Witness ==
    /\ UploaderShown(originalImage)
    /\ isProcessing
    /\ calls = 1
    /\ extraction = "pending"
    /\ created >= 1
    /\ ~ENABLED Selected

====
